---- MODULE Spec2Model ----
(***************************************************************************)
(* Model of the "cluster" certificate command, cmd/cert-cluster.go.        *)
(*                                                                         *)
(* One invocation is a process p that runs PreRunE and then RunE.  RunE is *)
(* cut at its library calls (file reads, parses, key generation, signing,  *)
(* file writes), which are the points at which it can return and at which  *)
(* another invocation can touch the file system.                           *)
(***************************************************************************)
EXTENDS Integers, Sequences, FiniteSets, TLC

(***************************************************************************)
(* Bounds.                                                                 *)
(***************************************************************************)
MaxArgs == 2      \* longest positional argument list drawn for the classifier
MaxTick == 1      \* largest clock advance between two clock readings

(***************************************************************************)
(* Strings whose characters matter (the positional arguments) are          *)
(* sequences of one-character strings.  Indices are 1-based: Go's s[i] is  *)
(* s[i+1] here, and Go's len(s) is Len(s).                                  *)
(***************************************************************************)
DecDigits == <<"0", "1", "2", "3", "4", "5", "6", "7", "8", "9">>
HexLower  == <<"a", "b", "c", "d", "e", "f">>
HexUpper  == <<"A", "B", "C", "D", "E", "F">>

IndexOf(seq, c) == CHOOSE k \in 1..Len(seq) : seq[k] = c
InSeq(seq, c)   == \E k \in 1..Len(seq) : seq[k] = c

big == 16777215   \* 0xFFFFFF, the overflow guard of dtoi and xtoi

IPv4len == 4
IPv6len == 16

Nil == <<>>       \* the nil net.IP (a slice of length 0)

\* The parsers below follow Go's net package.  Where the Go code keeps an
\* intermediate result in a local variable, the rest of the function is an
\* operator that takes that result as a parameter.

\* net.dtoi: decimal to integer starting at s[i0]
RECURSIVE dtoiLoop(_, _, _)
dtoiLoop(s, i, n) ==
    IF i <= Len(s) /\ InSeq(DecDigits, s[i])
    THEN IF n * 10 + (IndexOf(DecDigits, s[i]) - 1) >= big
         THEN [n |-> 0, i |-> i, ok |-> FALSE]
         ELSE dtoiLoop(s, i + 1, n * 10 + (IndexOf(DecDigits, s[i]) - 1))
    ELSE [n |-> n, i |-> i, ok |-> TRUE]

\* no digit read: not ok
NoDigits(r, i0) ==
    IF r.ok /\ r.i = i0 THEN [n |-> 0, i |-> i0, ok |-> FALSE] ELSE r

dtoi(s, i0) == NoDigits(dtoiLoop(s, i0, 0), i0)

\* value of one hexadecimal digit, -1 when c is not one
HexVal(c) ==
    IF InSeq(DecDigits, c) THEN IndexOf(DecDigits, c) - 1
    ELSE IF InSeq(HexLower, c) THEN IndexOf(HexLower, c) + 9
    ELSE IF InSeq(HexUpper, c) THEN IndexOf(HexUpper, c) + 9
    ELSE -1

\* net.xtoi: hexadecimal to integer starting at s[i0]
RECURSIVE xtoiLoop(_, _, _)
xtoiLoop(s, i, n) ==
    IF i <= Len(s) /\ HexVal(s[i]) >= 0
    THEN IF n * 16 + HexVal(s[i]) >= big
         THEN [n |-> 0, i |-> i, ok |-> FALSE]
         ELSE xtoiLoop(s, i + 1, n * 16 + HexVal(s[i]))
    ELSE [n |-> n, i |-> i, ok |-> TRUE]

xtoi(s, i0) == NoDigits(xtoiLoop(s, i0, 0), i0)

v4InV6Prefix == <<0, 0, 0, 0, 0, 0, 0, 0, 0, 0, 255, 255>>

\* net.IPv4: the 16-byte form of a.b.c.d
IPv4(a, b, c, d) == v4InV6Prefix \o <<a, b, c, d>>

\* net.parseIPv4: the loop over the four decimal fields; p holds the bytes
\* read so far, and parseIPv4Field handles the field r that dtoi returned
RECURSIVE parseIPv4Loop(_, _, _)
parseIPv4Field(s, p, r) ==
    IF ~r.ok \/ r.n > 255 THEN Nil
    ELSE parseIPv4Loop(s, r.i, Append(p, r.n))

parseIPv4Loop(s, i, p) ==
    IF Len(p) = IPv4len
    THEN IF i # Len(s) + 1 THEN Nil ELSE IPv4(p[1], p[2], p[3], p[4])
    ELSE IF i > Len(s) THEN Nil
    ELSE IF Len(p) > 0 /\ s[i] # "." THEN Nil
    ELSE parseIPv4Field(s, p, dtoi(s, IF Len(p) > 0 THEN i + 1 ELSE i))

parseIPv4(s) == parseIPv4Loop(s, 1, <<>>)

Zeros(n) == [k \in 1..n |-> 0]

V6State(ok, i, ip, ellipsis) == [ok |-> ok, i |-> i, ip |-> ip, ellipsis |-> ellipsis]

\* net.parseIPv6: the main loop.  i is the read position, ip the bytes
\* written so far (j = Len(ip)), ellipsis the byte offset of "::" or -1.
\* The result is the state at the loop's exit, or ok = FALSE for "return nil".
\* parseIPv6Field handles the group r that xtoi returned, parseIPv6Tail a
\* trailing dotted-decimal address ip4.
RECURSIVE parseIPv6Loop(_, _, _, _)
parseIPv6Tail(s, i, ip, ellipsis, ip4) ==
    IF ip4 = Nil THEN V6State(FALSE, i, ip, ellipsis)
    ELSE V6State(TRUE, Len(s) + 1, ip \o SubSeq(ip4, 13, 16), ellipsis)

parseIPv6Sep(s, i1, ip2, ellipsis) ==
    IF i1 = Len(s) + 1 THEN V6State(TRUE, i1, ip2, ellipsis)
    ELSE IF s[i1] # ":" \/ i1 = Len(s) THEN V6State(FALSE, i1, ip2, ellipsis)
    ELSE IF s[i1 + 1] = ":"
         THEN IF ellipsis >= 0 THEN V6State(FALSE, i1, ip2, ellipsis)
              ELSE IF i1 + 2 = Len(s) + 1 THEN V6State(TRUE, i1 + 2, ip2, Len(ip2))
              ELSE parseIPv6Loop(s, i1 + 2, ip2, Len(ip2))
         ELSE parseIPv6Loop(s, i1 + 1, ip2, ellipsis)

parseIPv6Field(s, i, ip, ellipsis, r) ==
    IF ~r.ok \/ r.n > 65535 THEN V6State(FALSE, i, ip, ellipsis)
    ELSE IF r.i <= Len(s) /\ s[r.i] = "."
    THEN IF ellipsis < 0 /\ Len(ip) # IPv6len - IPv4len
         THEN V6State(FALSE, i, ip, ellipsis)
         ELSE IF Len(ip) + IPv4len > IPv6len
         THEN V6State(FALSE, i, ip, ellipsis)
         ELSE parseIPv6Tail(s, i, ip, ellipsis, parseIPv4(SubSeq(s, i, Len(s))))
    ELSE parseIPv6Sep(s, r.i, ip \o <<r.n \div 256, r.n % 256>>, ellipsis)

parseIPv6Loop(s, i, ip, ellipsis) ==
    IF Len(ip) >= IPv6len THEN V6State(TRUE, i, ip, ellipsis)
    ELSE parseIPv6Field(s, i, ip, ellipsis, xtoi(s, i))

\* after the loop: all input consumed, and the "::" expanded to zero bytes
parseIPv6End(s, r) ==
    IF ~r.ok THEN Nil
    ELSE IF r.i # Len(s) + 1 THEN Nil
    ELSE IF Len(r.ip) < IPv6len
         THEN IF r.ellipsis < 0 THEN Nil
              ELSE SubSeq(r.ip, 1, r.ellipsis)
                     \o Zeros(IPv6len - Len(r.ip))
                     \o SubSeq(r.ip, r.ellipsis + 1, Len(r.ip))
    ELSE IF r.ellipsis >= 0 THEN Nil
    ELSE r.ip

\* net.parseIPv6 (no zone): leading "::", the loop, then the ellipsis expansion
parseIPv6(s) ==
    IF Len(s) >= 2 /\ s[1] = ":" /\ s[2] = ":"
    THEN IF Len(s) = 2 THEN Zeros(IPv6len)
         ELSE parseIPv6End(s, parseIPv6Loop(s, 3, <<>>, 0))
    ELSE parseIPv6End(s, parseIPv6Loop(s, 1, <<>>, -1))

\* net.ParseIP: the first '.' or ':' decides which syntax is tried
RECURSIVE ParseIPLoop(_, _)
ParseIPLoop(s, i) ==
    IF i > Len(s) THEN Nil
    ELSE IF s[i] = "." THEN parseIPv4(s)
    ELSE IF s[i] = ":" THEN parseIPv6(s)
    ELSE ParseIPLoop(s, i + 1)

ParseIP(s) == ParseIPLoop(s, 1)

\* net.IP.To4
To4(ip) ==
    IF Len(ip) = IPv4len THEN ip
    ELSE IF Len(ip) = IPv6len /\ SubSeq(ip, 1, 12) = v4InV6Prefix
         THEN SubSeq(ip, 13, 16)
    ELSE Nil

\* net.IP.To16
To16(ip) ==
    IF Len(ip) = IPv4len THEN IPv4(ip[1], ip[2], ip[3], ip[4])
    ELSE IF Len(ip) = IPv6len THEN ip
    ELSE Nil

\* ClassifyOne with the To16 case tried before the To4 case
ClassifyOneTo16First(v, chk, acc) ==
    IF To16(chk) # Nil THEN [acc EXCEPT !.ips = Append(@, To16(chk))]
    ELSE IF To4(chk) # Nil THEN [acc EXCEPT !.ips = Append(@, To4(chk))]
    ELSE [acc EXCEPT !.dns = Append(@, v)]

\* the switch of lines 89-96 for one argument v with chk = net.ParseIP(v);
\* acc holds the dns and ips slices
ClassifyOne(v, chk, acc) ==
    IF To4(chk) # Nil THEN [acc EXCEPT !.ips = Append(@, To4(chk))]
    ELSE IF To16(chk) # Nil THEN [acc EXCEPT !.ips = Append(@, To16(chk))]
    ELSE [acc EXCEPT !.dns = Append(@, v)]

\* RunE's loop over the positional arguments, from argument k on
RECURSIVE ClassifyLoop(_, _, _)
ClassifyLoop(as, k, acc) ==
    IF k > Len(as) THEN acc
    ELSE ClassifyLoop(as, k + 1, ClassifyOne(as[k], ParseIP(as[k]), acc))

Classify(as) == ClassifyLoop(as, 1, [dns |-> <<>>, ips |-> <<>>])

(***************************************************************************)
(* Sample identifiers.                                                     *)
(***************************************************************************)
IdV4       == <<"1", "0", ".", "0", ".", "0", ".", "5">>
IdV6Loop   == <<":", ":", "1">>
IdV6Link   == <<"f", "e", "8", "0", ":", ":", "1", ":", "2">>
IdV6Mapped == <<":", ":", "f", "f", "f", "f", ":", "1", "0", ".", "0", ".", "0", ".", "5">>
IdHost     == <<"n", "o", "d", "e", "1", ".", "l", "o", "c", "a", "l">>
IdBadV4    == <<"2", "5", "6", ".", "0", ".", "0", ".", "1">>
IdShortV4  == <<"1", ".", "2", ".", "3">>
IdEmpty    == <<>>

Idents == {IdV4, IdV6Loop, IdV6Link, IdV6Mapped, IdHost, IdBadV4, IdShortV4, IdEmpty}

ArgLists(n) == UNION {[1..k -> Idents] : k \in 0..n}


(***************************************************************************)
(* The file system, PEM and DER.  A file's content is a record: kind is    *)
(* "absent" (no readable file), "text" (bytes holding no PEM block),       *)
(* "partial" (what a failed write left behind) or "pem" (a PEM block of    *)
(* the given type around the DER payload der).  owner is the invocation    *)
(* that produced the payload, 0 for material that existed beforehand.      *)
(***************************************************************************)
Procs == {1, 2}

File(kind, type, der, owner) ==
    [kind |-> kind, type |-> type, der |-> der, owner |-> owner]

NoFile    == File("absent", "", "", 0)
TextFile  == File("text", "", "", 0)
Truncated == File("partial", "", "", 0)

\* pem.EncodeToMemory(&pem.Block{Type: type, Bytes: der})
EncodeToMemory(type, der, owner) == File("pem", type, der, owner)

NilBlock == [type |-> "", der |-> "", owner |-> 0, isNil |-> TRUE]

\* pem.Decode: the first PEM block of the data, or nil when there is none
Decode(data) ==
    IF data.kind = "pem"
    THEN [type |-> data.type, der |-> data.der, owner |-> data.owner, isNil |-> FALSE]
    ELSE NilBlock

\* x509.ParseCertificate succeeds on the DER encoding of a certificate
ParseCertificateOk(der) == der \in {"cacert", "cert"}

\* x509.ParsePKCS1PrivateKey succeeds on a PKCS#1 DER RSA private key
ParsePKCS1PrivateKeyOk(der) == der \in {"cakey", "key"}

\* ioutil.ReadFile fails exactly when the path holds no readable file
ReadFileOk(files, path) == files[path].kind # "absent"

\* ioutil.WriteFile(path, data, 0644): "ok" replaces the content; "open" is a
\* failure to open or create the file, which leaves it as it was; "write" is
\* a failure after the file was opened with O_TRUNC, which leaves a
\* truncated file.
WriteOutcomes == {"ok", "open", "write"}

WriteFile(files, path, data, outcome) ==
    IF outcome = "ok" THEN [files EXCEPT ![path] = data]
    ELSE IF outcome = "write" THEN [files EXCEPT ![path] = Truncated]
    ELSE files

(***************************************************************************)
(* Time.  An instant is a calendar date and the nanoseconds into that day. *)
(***************************************************************************)
IsLeap(y) == (y % 4 = 0 /\ y % 100 # 0) \/ y % 400 = 0

\* time.Time.AddDate(years, 0, 0): the same month and day of the later
\* year; February 29 of a year that has none normalises to March 1
AddDate(t, years) ==
    LET y == t.date[1] + years
        m == t.date[2]
        d == t.date[3]
    IN  IF m = 2 /\ d = 29 /\ ~IsLeap(y)
        THEN [t EXCEPT !.date = <<y, 3, 1>>]
        ELSE [t EXCEPT !.date = <<y, m, d>>]

ValidYears == 10    \* the years argument of AddDate at line 132

Tick(t, n) == [t EXCEPT !.ns = @ + n]

(***************************************************************************)
(* State.                                                                  *)
(***************************************************************************)
VARIABLES
    certClusterOpt,  \* per invocation: the flag values
    args,            \* per invocation: the positional arguments
    pc,              \* per invocation: position in PreRunE / RunE
    ret,             \* per invocation: what the command returned
    dns, ips,        \* RunE locals
    caCrtFile, caCrt, caKeyFile, caKey,
    csr, key, pub,
    steps,           \* per invocation: the library calls made so far, in order
    fs,              \* the file system shared by all invocations
    now              \* the wall clock shared by all invocations

vars == <<certClusterOpt, args, pc, ret, dns, ips, caCrtFile, caCrt, caKeyFile,
          caKey, csr, key, pub, steps, fs, now>>

locals == <<dns, ips, caCrtFile, caCrt, caKeyFile, caKey, csr, key, pub>>

Paths == {"ca.crt", "ca.key", "cluster.crt", "cluster.key"}

Options ==
    [CaCrt : {"", "ca.crt"}, CaKey : {"", "ca.key"}, Org : {"", "Acme"},
     Crt : {"", "cluster.crt"}, Key : {"", "cluster.key"}]

DefaultOpt ==
    [CaCrt |-> "ca.crt", CaKey |-> "ca.key", Org |-> "Acme",
     Crt |-> "cluster.crt", Key |-> "cluster.key"]

NoRet == [status |-> "running", msg |-> "", path |-> ""]
Errorf(msg, path) == [status |-> "error", msg |-> msg, path |-> path]
Success == [status |-> "ok", msg |-> "", path |-> ""]
Panic == [status |-> "panic", msg |-> "nil pointer dereference", path |-> ""]

NoTime == [date |-> <<0, 0, 0>>, ns |-> 0]
NoCsr == [built |-> FALSE, NotBefore |-> NoTime, NotAfter |-> NoTime,
          SerialNumber |-> NoTime, DNSNames |-> <<>>, IPAddresses |-> <<>>]

StartDates == {<<2016, 2, 29>>, <<2016, 11, 4>>}

CaCrtContents == {NoFile, TextFile, EncodeToMemory("CERTIFICATE", "junk", 0),
                  EncodeToMemory("CERTIFICATE", "cacert", 0)}
CaKeyContents == {NoFile, TextFile, EncodeToMemory("RSA PRIVATE KEY", "junk", 0),
                  EncodeToMemory("RSA PRIVATE KEY", "cakey", 0)}
OldCrtContents == {NoFile, EncodeToMemory("CERTIFICATE", "cert", 0)}
OldKeyContents == {NoFile, EncodeToMemory("RSA PRIVATE KEY", "key", 0)}

InitLocals ==
    /\ dns = [p \in Procs |-> <<>>]
    /\ ips = [p \in Procs |-> <<>>]
    /\ caCrtFile = [p \in Procs |-> NoFile]
    /\ caKeyFile = [p \in Procs |-> NoFile]
    /\ caCrt = [p \in Procs |-> "nil"]
    /\ caKey = [p \in Procs |-> "nil"]
    /\ csr = [p \in Procs |-> NoCsr]
    /\ key = [p \in Procs |-> 0]
    /\ pub = [p \in Procs |-> 0]
    /\ ret = [p \in Procs |-> NoRet]
    /\ steps = [p \in Procs |-> <<>>]

\* one invocation (process 1), any flag values, any state of the four files
Init ==
    /\ InitLocals
    /\ \E o \in Options : certClusterOpt = [p \in Procs |-> o]
    /\ \E a \in {<<>>, <<IdV4, IdHost>>} : args = [p \in Procs |-> a]
    /\ pc = [p \in Procs |-> IF p = 1 THEN "PreRunE" ELSE "off"]
    /\ \E c \in CaCrtContents, k \in CaKeyContents,
          oc \in OldCrtContents, ok \in OldKeyContents :
          fs = [f \in Paths |->
                  CASE f = "ca.crt" -> c
                    [] f = "ca.key" -> k
                    [] f = "cluster.crt" -> oc
                    [] f = "cluster.key" -> ok]
    /\ \E d \in StartDates : now = [date |-> d, ns |-> 0]

\* two invocations with the default paths and a usable CA
InitRace ==
    /\ InitLocals
    /\ certClusterOpt = [p \in Procs |-> DefaultOpt]
    /\ args = [p \in Procs |-> <<>>]
    /\ pc = [p \in Procs |-> "PreRunE"]
    /\ fs = [f \in Paths |->
               CASE f = "ca.crt" -> EncodeToMemory("CERTIFICATE", "cacert", 0)
                 [] f = "ca.key" -> EncodeToMemory("RSA PRIVATE KEY", "cakey", 0)
                 [] OTHER -> NoFile]
    /\ now = [date |-> <<2016, 11, 4>>, ns |-> 0]

\* one invocation with valid flags, any argument list up to MaxArgs
InitClassify ==
    /\ InitLocals
    /\ certClusterOpt = [p \in Procs |-> DefaultOpt]
    /\ \E a \in ArgLists(MaxArgs) : args = [p \in Procs |-> a]
    /\ pc = [p \in Procs |-> IF p = 1 THEN "PreRunE" ELSE "off"]
    /\ fs = [f \in Paths |-> NoFile]
    /\ now = [date |-> <<2016, 11, 4>>, ns |-> 0]

(***************************************************************************)
(* PreRunE.                                                                *)
(***************************************************************************)
\* PreRunECheck without the organisation check
PreRunECheckNoOrg(o) ==
    IF Len(o.CaCrt) = 0 THEN "Please provide a CA certificate file path."
    ELSE IF Len(o.CaKey) = 0 THEN "Please provide a CA private key file path."
    ELSE IF Len(o.Crt) = 0 THEN "Please provide a certificate file path."
    ELSE IF Len(o.Key) = 0 THEN "Please provide a private key file path."
    ELSE ""

\* the message PreRunE returns, "" for nil
PreRunECheck(o) ==
    IF Len(o.CaCrt) = 0 THEN "Please provide a CA certificate file path."
    ELSE IF Len(o.CaKey) = 0 THEN "Please provide a CA private key file path."
    ELSE IF Len(o.Org) = 0 THEN "Please provide an organisation name."
    ELSE IF Len(o.Crt) = 0 THEN "Please provide a certificate file path."
    ELSE IF Len(o.Key) = 0 THEN "Please provide a private key file path."
    ELSE ""

\* cobra runs PreRunE and runs RunE only when PreRunE returned nil
PreRunE(p) ==
    /\ pc[p] = "PreRunE"
    /\ LET msg == PreRunECheck(certClusterOpt[p])
       IN  IF msg # ""
           THEN /\ ret' = [ret EXCEPT ![p] = Errorf(msg, "")]
                /\ pc' = [pc EXCEPT ![p] = "done"]
           ELSE /\ pc' = [pc EXCEPT ![p] = "classify"]
                /\ UNCHANGED ret
    /\ UNCHANGED <<certClusterOpt, args, locals, steps, fs, now>>


(***************************************************************************)
(* RunE.                                                                   *)
(***************************************************************************)
\* record a library call and whether RunE went on after it
Did(p, name, ok) ==
    steps' = [steps EXCEPT ![p] = Append(@, [name |-> name, ok |-> ok])]

\* RunE returns r
Return(p, r) ==
    /\ ret' = [ret EXCEPT ![p] = r]
    /\ pc' = [pc EXCEPT ![p] = "done"]

Goto(p, label) ==
    /\ pc' = [pc EXCEPT ![p] = label]
    /\ UNCHANGED ret

\* lines 84-97: split the arguments into DNS names and IP addresses
RunClassify(p) ==
    /\ pc[p] = "classify"
    /\ \E r \in {Classify(args[p])} :
          /\ dns' = [dns EXCEPT ![p] = r.dns]
          /\ ips' = [ips EXCEPT ![p] = r.ips]
    /\ Did(p, "classify", TRUE)
    /\ Goto(p, "readCaCrt")
    /\ UNCHANGED <<certClusterOpt, args, caCrtFile, caCrt, caKeyFile, caKey,
                   csr, key, pub, fs, now>>

\* lines 99-102
ReadCaCrt(p) ==
    /\ pc[p] = "readCaCrt"
    /\ LET path == certClusterOpt[p].CaCrt
       IN  IF ReadFileOk(fs, path)
           THEN /\ caCrtFile' = [caCrtFile EXCEPT ![p] = fs[path]]
                /\ Did(p, "readCaCrt", TRUE)
                /\ Goto(p, "parseCaCrt")
           ELSE /\ Did(p, "readCaCrt", FALSE)
                /\ Return(p, Errorf("Could not read file", certClusterOpt[p].CaCrt))
                /\ UNCHANGED caCrtFile
    /\ UNCHANGED <<certClusterOpt, args, dns, ips, caCrt, caKeyFile, caKey,
                   csr, key, pub, fs, now>>

\* lines 104-109: the block pem.Decode returns is dereferenced unchecked
ParseCaCrt(p) ==
    /\ pc[p] = "parseCaCrt"
    /\ LET caCrtData == Decode(caCrtFile[p])
       IN  IF caCrtData.isNil
           THEN /\ Did(p, "parseCaCrt", FALSE)
                /\ Return(p, Panic)
                /\ UNCHANGED caCrt
           ELSE IF ParseCertificateOk(caCrtData.der)
           THEN /\ caCrt' = [caCrt EXCEPT ![p] = caCrtData.der]
                /\ Did(p, "parseCaCrt", TRUE)
                /\ Goto(p, "readCaKey")
           ELSE /\ Did(p, "parseCaCrt", FALSE)
                /\ Return(p, Errorf("Could not parse CA certificate", ""))
                /\ UNCHANGED caCrt
    /\ UNCHANGED <<certClusterOpt, args, dns, ips, caCrtFile, caKeyFile, caKey,
                   csr, key, pub, fs, now>>

\* ReadCaKey going on to the parse after a failed read
ReadCaKeyIgnoreErr(p) ==
    /\ pc[p] = "readCaKey"
    /\ LET path == certClusterOpt[p].CaKey
       IN  /\ caKeyFile' = [caKeyFile EXCEPT ![p] = fs[path]]
           /\ Did(p, "readCaKey", ReadFileOk(fs, path))
           /\ Goto(p, "parseCaKey")
    /\ UNCHANGED <<certClusterOpt, args, dns, ips, caCrtFile, caCrt, caKey,
                   csr, key, pub, fs, now>>

\* lines 111-114: the message is built from CA.Crt
ReadCaKey(p) ==
    /\ pc[p] = "readCaKey"
    /\ LET path == certClusterOpt[p].CaKey
       IN  IF ReadFileOk(fs, path)
           THEN /\ caKeyFile' = [caKeyFile EXCEPT ![p] = fs[path]]
                /\ Did(p, "readCaKey", TRUE)
                /\ Goto(p, "parseCaKey")
           ELSE /\ Did(p, "readCaKey", FALSE)
                /\ Return(p, Errorf("Could not read file", certClusterOpt[p].CaCrt))
                /\ UNCHANGED caKeyFile
    /\ UNCHANGED <<certClusterOpt, args, dns, ips, caCrtFile, caCrt, caKey,
                   csr, key, pub, fs, now>>

\* lines 116-121
ParseCaKey(p) ==
    /\ pc[p] = "parseCaKey"
    /\ LET caKeyData == Decode(caKeyFile[p])
       IN  IF caKeyData.isNil
           THEN /\ Did(p, "parseCaKey", FALSE)
                /\ Return(p, Panic)
                /\ UNCHANGED caKey
           ELSE IF ParsePKCS1PrivateKeyOk(caKeyData.der)
           THEN /\ caKey' = [caKey EXCEPT ![p] = caKeyData.der]
                /\ Did(p, "parseCaKey", TRUE)
                /\ Goto(p, "template")
           ELSE /\ Did(p, "parseCaKey", FALSE)
                /\ Return(p, Errorf("Could not parse CA private key", ""))
                /\ UNCHANGED caKey
    /\ UNCHANGED <<certClusterOpt, args, dns, ips, caCrtFile, caCrt, caKeyFile,
                   csr, key, pub, fs, now>>

\* lines 123-143: the template; time.Now() is called three times (NotBefore,
\* NotAfter, SerialNumber) and the clock may move between the calls
BuildTemplate(p) ==
    /\ pc[p] = "template"
    /\ \E d1 \in 0..MaxTick, d2 \in 0..MaxTick :
          LET t1 == now
              t2 == Tick(t1, d1)
              t3 == Tick(t2, d2)
          IN  /\ csr' = [csr EXCEPT ![p] =
                            [built |-> TRUE,
                             NotBefore |-> t1,
                             NotAfter |-> AddDate(t2, ValidYears),
                             SerialNumber |-> t3,
                             DNSNames |-> dns[p],
                             IPAddresses |-> ips[p]]]
              /\ now' = t3
    /\ Goto(p, "genKey")
    /\ UNCHANGED <<certClusterOpt, args, dns, ips, caCrtFile, caCrt, caKeyFile,
                   caKey, key, pub, steps, fs>>

\* lines 145-150: rsa.GenerateKey either yields a fresh key, which belongs to
\* this invocation alone, or fails
GenKey(p) ==
    /\ pc[p] = "genKey"
    /\ \E ok \in BOOLEAN :
          IF ok
          THEN /\ key' = [key EXCEPT ![p] = p]
               /\ Did(p, "genKey", TRUE)
               /\ Goto(p, "sign")
          ELSE /\ Did(p, "genKey", FALSE)
               /\ Return(p, Errorf("Certificate generation failed", ""))
               /\ UNCHANGED key
    /\ UNCHANGED <<certClusterOpt, args, dns, ips, caCrtFile, caCrt, caKeyFile,
                   caKey, csr, pub, fs, now>>

\* lines 152-155: x509.CreateCertificate binds this invocation's public key
Sign(p) ==
    /\ pc[p] = "sign"
    /\ \E ok \in BOOLEAN :
          IF ok
          THEN /\ pub' = [pub EXCEPT ![p] = key[p]]
               /\ Did(p, "sign", TRUE)
               /\ Goto(p, "writeCrt")
          ELSE /\ Did(p, "sign", FALSE)
               /\ Return(p, Errorf("Certificate generation failed", ""))
               /\ UNCHANGED pub
    /\ UNCHANGED <<certClusterOpt, args, dns, ips, caCrtFile, caCrt, caKeyFile,
                   caKey, csr, key, fs, now>>

\* WriteCrt going on to the key write after a failed certificate write
WriteCrtIgnoreErr(p) ==
    /\ pc[p] = "writeCrt"
    /\ \E outcome \in WriteOutcomes :
          LET enc == EncodeToMemory("CERTIFICATE", "cert", pub[p])
          IN  /\ fs' = WriteFile(fs, certClusterOpt[p].Crt, enc, outcome)
              /\ Did(p, "writeCrt", outcome = "ok")
              /\ Goto(p, "writeKey")
    /\ UNCHANGED <<certClusterOpt, args, locals, now>>

\* WriteCrt waiting while another invocation is between its two writes
WriteCrtLocked(p) ==
    /\ pc[p] = "writeCrt"
    /\ \A q \in Procs \ {p} : pc[q] # "writeKey"
    /\ \E outcome \in WriteOutcomes :
          LET enc == EncodeToMemory("CERTIFICATE", "cert", pub[p])
          IN  /\ fs' = WriteFile(fs, certClusterOpt[p].Crt, enc, outcome)
              /\ IF outcome = "ok"
                 THEN /\ Did(p, "writeCrt", TRUE)
                      /\ Goto(p, "writeKey")
                 ELSE /\ Did(p, "writeCrt", FALSE)
                      /\ Return(p, Errorf("Unable to write certificate file to",
                                          certClusterOpt[p].Crt))
    /\ UNCHANGED <<certClusterOpt, args, locals, now>>

\* lines 157-165
WriteCrt(p) ==
    /\ pc[p] = "writeCrt"
    /\ \E outcome \in WriteOutcomes :
          LET enc == EncodeToMemory("CERTIFICATE", "cert", pub[p])
          IN  /\ fs' = WriteFile(fs, certClusterOpt[p].Crt, enc, outcome)
              /\ IF outcome = "ok"
                 THEN /\ Did(p, "writeCrt", TRUE)
                      /\ Goto(p, "writeKey")
                 ELSE /\ Did(p, "writeCrt", FALSE)
                      /\ Return(p, Errorf("Unable to write certificate file to",
                                          certClusterOpt[p].Crt))
    /\ UNCHANGED <<certClusterOpt, args, locals, now>>

\* WriteKey removing the certificate again when the key write fails
WriteKeyRollback(p) ==
    /\ pc[p] = "writeKey"
    /\ \E outcome \in WriteOutcomes :
          LET enc == EncodeToMemory("RSA PRIVATE KEY", "key", key[p])
          IN  IF outcome = "ok"
              THEN /\ fs' = WriteFile(fs, certClusterOpt[p].Key, enc, outcome)
                   /\ Did(p, "writeKey", TRUE)
                   /\ Return(p, Success)
              ELSE /\ fs' = [WriteFile(fs, certClusterOpt[p].Key, enc, outcome)
                               EXCEPT ![certClusterOpt[p].Crt] = NoFile]
                   /\ Did(p, "writeKey", FALSE)
                   /\ Return(p, Errorf("Unable to write private key file to",
                                       certClusterOpt[p].Key))
    /\ UNCHANGED <<certClusterOpt, args, locals, now>>

\* lines 167-177
WriteKey(p) ==
    /\ pc[p] = "writeKey"
    /\ \E outcome \in WriteOutcomes :
          LET enc == EncodeToMemory("RSA PRIVATE KEY", "key", key[p])
          IN  /\ fs' = WriteFile(fs, certClusterOpt[p].Key, enc, outcome)
              /\ IF outcome = "ok"
                 THEN /\ Did(p, "writeKey", TRUE)
                      /\ Return(p, Success)
                 ELSE /\ Did(p, "writeKey", FALSE)
                      /\ Return(p, Errorf("Unable to write private key file to",
                                          certClusterOpt[p].Key))
    /\ UNCHANGED <<certClusterOpt, args, locals, now>>

Next ==
    \E p \in Procs :
        \/ PreRunE(p)
        \/ RunClassify(p)
        \/ ReadCaCrt(p)
        \/ ParseCaCrt(p)
        \/ ReadCaKey(p)
        \/ ParseCaKey(p)
        \/ BuildTemplate(p)
        \/ GenKey(p)
        \/ Sign(p)
        \/ WriteCrt(p)
        \/ WriteKey(p)

NextClassify ==
    \E p \in Procs :
        \/ PreRunE(p)
        \/ RunClassify(p)

Spec == Init /\ [][Next]_vars

SpecRace == InitRace /\ [][Next]_vars

SpecClassify == InitClassify /\ [][NextClassify]_vars


(***************************************************************************)
(* Properties.                                                             *)
(***************************************************************************)
Started(p)  == pc[p] \notin {"off", "PreRunE"}
Returned(p) == pc[p] = "done"
PreOk(p)    == PreRunECheck(certClusterOpt[p]) = ""

StepOk(p, name)     == \E k \in 1..Len(steps[p]) : steps[p][k] = [name |-> name, ok |-> TRUE]
StepFailed(p, name) == \E k \in 1..Len(steps[p]) : steps[p][k] = [name |-> name, ok |-> FALSE]
StepDone(p, name)   == StepOk(p, name) \/ StepFailed(p, name)
AnyFailed(p)        == \E k \in 1..Len(steps[p]) : ~steps[p][k].ok

IssuedCrt(p) == EncodeToMemory("CERTIFICATE", "cert", p)
IssuedKey(p) == EncodeToMemory("RSA PRIVATE KEY", "key", p)

\* C1: an invocation whose preconditions passed returns an error when any
\* step failed and success otherwise, and it returns success only when it
\* wrote both the certificate file and the key file.
C1_ErrorOnEveryFailure ==
    \A p \in Procs :
        (Returned(p) /\ PreOk(p)) =>
            /\ AnyFailed(p) => (ret[p].status = "error" /\ ret[p].msg # "")
            /\ ~AnyFailed(p) => ret[p].status = "ok"
            /\ ret[p].status = "ok" => (StepOk(p, "writeCrt") /\ StepOk(p, "writeKey"))

\* C2: with any of the five required flag values empty the command fails
\* with a precondition error before any read, write, key generation or
\* signing; with all five non-empty PreRunE passes and RunE starts.
PreconditionMsgs ==
    {"Please provide a CA certificate file path.",
     "Please provide a CA private key file path.",
     "Please provide an organisation name.",
     "Please provide a certificate file path.",
     "Please provide a private key file path."}

AnyEmpty(o) == o.CaCrt = "" \/ o.CaKey = "" \/ o.Org = "" \/ o.Crt = "" \/ o.Key = ""

C2_Precondition ==
    \A p \in Procs :
        Started(p) =>
            IF AnyEmpty(certClusterOpt[p])
            THEN /\ Returned(p)
                 /\ ret[p].status = "error"
                 /\ ret[p].msg \in PreconditionMsgs
                 /\ steps[p] = <<>>
                 /\ caCrtFile[p] = NoFile /\ caKeyFile[p] = NoFile
                 /\ key[p] = 0 /\ pub[p] = 0
                 /\ \A f \in Paths : fs[f].owner # p /\ fs[f].kind # "partial"
            ELSE /\ ret[p].msg \notin PreconditionMsgs
                 /\ pc[p] = "classify" \/ StepDone(p, "classify")

C2_Witness ==
    /\ Returned(1)
    /\ certClusterOpt[1] = [DefaultOpt EXCEPT !.Org = ""]
    /\ ret[1] = Errorf("Please provide an organisation name.", "")

\* C3 as stated: a string in IPv4 syntax goes to the IP list in 4-byte form,
\* a string in IPv6 syntax goes to the IP list in 16-byte form, every other
\* string goes to the DNS list; order and duplicates are kept.
MapSeq(q, F(_)) == [k \in 1..Len(q) |-> F(q[k])]

IsV4Text(s) == parseIPv4(s) # Nil
IsV6Text(s) == parseIPv6(s) # Nil
IsIPText(s) == IsV4Text(s) \/ IsV6Text(s)
IsNameText(s) == ~IsIPText(s)
TextForm(s) == IF IsV4Text(s) THEN SubSeq(parseIPv4(s), 13, 16) ELSE parseIPv6(s)

Classified(p) == StepDone(p, "classify")

C3_BySyntax ==
    \A p \in Procs :
        Classified(p) =>
            /\ dns[p] = SelectSeq(args[p], IsNameText)
            /\ ips[p] = MapSeq(SelectSeq(args[p], IsIPText), TextForm)
            /\ Len(dns[p]) + Len(ips[p]) = Len(args[p])

\* C3 amended: a string that parses to an IPv4 address or to an IPv4-mapped
\* IPv6 address (::ffff:a.b.c.d, in either syntax) goes to the IP list in
\* 4-byte form, a string that parses to any other IPv6 address goes to the
\* IP list in 16-byte form, every other string goes to the DNS list
\* unchanged; both lists keep the input order and the duplicates, and the
\* empty input gives two empty lists.
IsAddr(s) == Len(ParseIP(s)) = IPv6len
IsName(s) == ~IsAddr(s)
IsMapped(ip) == \A k \in 1..12 : ip[k] = (IF k > 10 THEN 255 ELSE 0)
AddrForm(s) ==
    IF IsMapped(ParseIP(s))
    THEN [k \in 1..4 |-> ParseIP(s)[12 + k]]
    ELSE ParseIP(s)

C3_ByAddress ==
    \A p \in Procs :
        Classified(p) =>
            /\ dns[p] = SelectSeq(args[p], IsName)
            /\ ips[p] = MapSeq(SelectSeq(args[p], IsAddr), AddrForm)
            /\ Len(dns[p]) + Len(ips[p]) = Len(args[p])
            /\ \A k \in 1..Len(ips[p]) : Len(ips[p][k]) \in {IPv4len, IPv6len}
            /\ args[p] = <<>> => (dns[p] = <<>> /\ ips[p] = <<>>)

C3_Witness ==
    /\ Classified(1)
    /\ args[1] = <<IdV6Mapped, IdHost>>
    /\ ips[1] = << <<10, 0, 0, 5>> >>
    /\ dns[1] = <<IdHost>>

\* C4: with a readable CA certificate file that holds no PEM block the
\* command returns a format error, generates no key and leaves the output
\* files alone.
C4_NoPemIsAnError ==
    \A p \in Procs :
        (Returned(p) /\ StepOk(p, "readCaCrt") /\ Decode(caCrtFile[p]).isNil) =>
            /\ ret[p].status = "error"
            /\ key[p] = 0
            /\ ~StepDone(p, "writeCrt") /\ ~StepDone(p, "writeKey")

\* C5: a failed certificate write ends the invocation with the certificate
\* write error, after both CA parses, the key generation and the signing
\* succeeded, and the key file is not written.
C5_CrtWriteFailure ==
    \A p \in Procs :
        StepFailed(p, "writeCrt") =>
            /\ Returned(p)
            /\ ret[p] = Errorf("Unable to write certificate file to", certClusterOpt[p].Crt)
            /\ StepOk(p, "parseCaCrt") /\ StepOk(p, "parseCaKey")
            /\ StepOk(p, "genKey") /\ StepOk(p, "sign")
            /\ caCrt[p] # "nil" /\ caKey[p] # "nil" /\ key[p] = p /\ pub[p] = p
            /\ ~StepDone(p, "writeKey")
            /\ fs[certClusterOpt[p].Key].owner # p
            /\ fs[certClusterOpt[p].Key].kind # "partial"

C5_Witness ==
    /\ Returned(1)
    /\ StepFailed(1, "writeCrt")
    /\ fs["cluster.crt"] = Truncated
    /\ fs["cluster.key"] = EncodeToMemory("RSA PRIVATE KEY", "key", 0)

\* C6: when the certificate write succeeded and the key write failed, the
\* command returns an error, the certificate it wrote is still in the
\* certificate file and the key file does not hold the matching key.
C6_NoRollback ==
    \A p \in Procs :
        (StepOk(p, "writeCrt") /\ StepFailed(p, "writeKey")) =>
            /\ Returned(p)
            /\ ret[p].status = "error"
            /\ fs[certClusterOpt[p].Crt] = IssuedCrt(p)
            /\ fs[certClusterOpt[p].Key] # IssuedKey(p)

C6_Witness ==
    /\ Returned(1)
    /\ StepOk(1, "writeCrt") /\ StepFailed(1, "writeKey")
    /\ fs["cluster.crt"] = IssuedCrt(1)
    /\ fs["cluster.key"] = Truncated

\* C7: an I/O error names the path of the file the failing operation was
\* performed on.
IoPath(p, name) ==
    CASE name = "readCaCrt" -> certClusterOpt[p].CaCrt
      [] name = "readCaKey" -> certClusterOpt[p].CaKey
      [] name = "writeCrt"  -> certClusterOpt[p].Crt
      [] name = "writeKey"  -> certClusterOpt[p].Key

C7_IoErrorNamesItsFile ==
    \A p \in Procs :
        \A name \in {"readCaCrt", "readCaKey", "writeCrt", "writeKey"} :
            StepFailed(p, name) =>
                (ret[p].status = "error" /\ ret[p].path = IoPath(p, name))

\* C8: in every successful issuance NotAfter is NotBefore advanced by ten
\* years, however the clock moves between the readings.
C8_TenYearsExactly ==
    \A p \in Procs :
        ret[p].status = "ok" =>
            csr[p].NotAfter = AddDate(csr[p].NotBefore, ValidYears)

\* C9: no lock orders two invocations that write the same output paths:
\* while one is between its certificate write and its key write, the other
\* can perform whichever write it has reached.  (C9_Witness is the
\* interleaving after which both have returned success and the certificate
\* on disk belongs to one invocation and the key to the other.)
C9_NoLock ==
    \A p \in Procs : \A q \in Procs \ {p} :
        (/\ pc[p] = "writeKey"
         /\ certClusterOpt[p].Crt = certClusterOpt[q].Crt
         /\ certClusterOpt[p].Key = certClusterOpt[q].Key) =>
            /\ pc[q] = "writeCrt" => ENABLED WriteCrt(q)
            /\ pc[q] = "writeKey" => ENABLED WriteKey(q)

C9_Witness ==
    /\ ret[1].status = "ok" /\ ret[2].status = "ok"
    /\ certClusterOpt[1].Crt = certClusterOpt[2].Crt
    /\ certClusterOpt[1].Key = certClusterOpt[2].Key
    /\ fs["cluster.crt"] = IssuedCrt(1)
    /\ fs["cluster.key"] = IssuedKey(2)

\* C10: the steps of one invocation are a prefix of the fixed order, each
\* taken once; only the last step taken can have failed, and an invocation
\* whose step failed has returned.
Order ==
    <<"classify", "readCaCrt", "parseCaCrt", "readCaKey", "parseCaKey",
      "genKey", "sign", "writeCrt", "writeKey">>

C10_FixedOrder ==
    \A p \in Procs :
        /\ Len(steps[p]) <= Len(Order)
        /\ \A k \in 1..Len(steps[p]) : steps[p][k].name = Order[k]
        /\ \A k \in 1..Len(steps[p]) : k < Len(steps[p]) => steps[p][k].ok
        /\ AnyFailed(p) => (Returned(p) /\ ret[p].status # "ok")
        /\ caCrtFile[p] # NoFile => StepOk(p, "readCaCrt")
        /\ caKeyFile[p] # NoFile => StepOk(p, "readCaKey")
        /\ key[p] # 0 => StepOk(p, "genKey")
        /\ pub[p] # 0 => StepOk(p, "sign")

C10_Witness ==
    /\ Returned(1)
    /\ Len(steps[1]) = 7
    /\ steps[1][7] = [name |-> "sign", ok |-> FALSE]
    /\ ret[1] = Errorf("Certificate generation failed", "")

====
